---- MODULE Spec2Model ----
(***************************************************************************)
(* State-machine model of ESP32BLEController                               *)
(* (src/components/esp32_ble_controller/esp32_ble_controller.cpp).         *)
(*                                                                         *)
(* Two threads act on the state: the application loop thread (setup, loop, *)
(* publish-state, set-mode, scheduler timeouts) and the BLE stack thread   *)
(* (server and security callbacks).  Every operation of the loop thread is *)
(* one action, except setup, which is one action per step of setup(), and  *)
(* loop(), which is one action per take / invoke of its while loop, so     *)
(* that the stack thread can interleave where it can in the program.       *)
(***************************************************************************)
EXTENDS Integers, Sequences, FiniteSets, TLC

(***************************************************************************)
(* Bounds of the model.                                                    *)
(***************************************************************************)
QueueCapacity == 2      \* capacity of deferred_functions_for_loop
MaxItems == 3           \* enqueue attempts
MaxObservers == 2       \* registered observers
MaxRegistrations == 2   \* register_component calls per component of a controller

(***************************************************************************)
(* Values.                                                                 *)
(***************************************************************************)
Controllers == {"ctrl1", "ctrl2"}
SetupOrder == <<"ctrl1", "ctrl2">>   \* the application sets up its components in order
NULL == "nullptr"
Components == {"c1"}
Descriptors == {"d1", "d2"}
ObserverNames == <<"o1", "o2", "o3", "o4">>
Kinds == {"show_pass_key", "authentication_complete", "connected", "disconnected"}
PassKeys == {42, 123456}
\* pass keys over the whole range of uint32_t, written as "%d" reads their 32
\* bits: a value v >= 2^31 is written v - 2^32 (4294967295 is -1)
PassKeyInputs == {0, 7, 42, 99999, 100000, 123456, 999999, 1000000, 1234567,
                  2147483647, -1, -294967296, -2147483647}
PreferenceInputs == {<<>>, <<2>>}   \* what the flash holds at boot: nothing, or WIFI_ONLY

\* enum BLEMaintenanceMode : uint8_t
BLE_ONLY == 0
MIXED == 1
WIFI_ONLY == 2
ModeInputs == {BLE_ONLY, MIXED, WIFI_ONLY, WIFI_ONLY + 1}

PASS_KEY_LENGTH == 6
FIXED_PASS_KEY == 123456

VARIABLES
  running,                     \* FALSE once the device restarts (safe_reboot or a crash)
  phase,                       \* position of setup() per controller
  failed,                      \* Component::mark_failed() was called
  ble_mode,                    \* ESP32BLEController::ble_mode
  security_enabled,            \* ESP32BLEController::security_enabled
  ble_server,                  \* ESP32BLEController::ble_server
  info_for_component,          \* object id -> BLECharacteristicInfoForHandler
  handler_for_component,       \* object id -> BLEComponentHandlerBase*
  callbacks,                   \* on_*_callbacks, per kind
  deferred_functions_for_loop, \* the deferred queue, per controller
  global_ble_controller,       \* the global controller pointer
  device,                      \* BLEDevice / radio: started, receivers, advertising, connected
  preference,                  \* the persisted mode: <<>> or <<value>>
  timeouts,                    \* pending App.scheduler timeouts (advertising restart)
  loop_pc,                     \* position of the loop thread inside loop()
  loop_self,                   \* controller whose loop() is running
  deferred_function,           \* the item taken by loop(): <<>> or <<item>>
  next_id,                     \* identity of the next work item
  pushed,                      \* per queue: the items accepted, in order of acceptance
  executed,                    \* the items invoked, in order of invocation
  registrations,               \* per controller and component: the descriptors registered, in order
  last                         \* the operation performed by the last step and its effects

vars == <<running, phase, failed, ble_mode, security_enabled, ble_server, info_for_component,
          handler_for_component, callbacks, deferred_functions_for_loop,
          global_ble_controller, device, preference, timeouts, loop_pc, loop_self,
          deferred_function, next_id, pushed, executed, registrations, last>>

(***************************************************************************)
(* Observable effects of one operation.                                    *)
(***************************************************************************)
\* an effect: arg is its text, num its number
Effect(type, self, kind, who, arg) ==
  [type |-> type, self |-> self, kind |-> kind, who |-> who, arg |-> arg, num |-> 0]

EffectNum(type, self, kind, who, num) ==
  [type |-> type, self |-> self, kind |-> kind, who |-> who, arg |-> "", num |-> num]

NoItem == [id |-> 0, kind |-> "", self |-> NULL, arg |-> "", by |-> ""]

\* an operation: arg and ret are its argument and its answer when they are
\* text or a bool, num and value when they are numbers, item is the work
\* item it runs
Op(op, self, thread, arg, ret, effects) ==
  [op |-> op, self |-> self, thread |-> thread, arg |-> arg, ret |-> ret,
   effects |-> effects, num |-> 0, value |-> 0, item |-> NoItem]

WithNum(o, num) == [o EXCEPT !.num = num]

WithValue(o, value) == [o EXCEPT !.value = value]

WithItem(o, item) == [o EXCEPT !.item = item]

EmptyMap == [c \in {} |-> NULL]

BoolStr(b) == IF b THEN "true" ELSE "false"

\* a null BLEComponentHandlerBase*
null_handler == [component |-> NULL, info |-> NULL]

MapPut(m, k, v) == [c \in (DOMAIN m) \cup {k} |-> IF c = k THEN v ELSE m[c]]

RECURSIVE SetToSeq(_)
SetToSeq(S) == IF S = {} THEN <<>>
               ELSE LET x == CHOOSE y \in S : TRUE IN <<x>> \o SetToSeq(S \ {x})

(***************************************************************************)
(* Initial state: the device has booted, nothing is configured and the     *)
(* flash holds a mode preference written by an earlier run, or none.       *)
(***************************************************************************)
BootDevice == [bt_started |-> FALSE, server_callbacks |-> NULL, security_callbacks |-> NULL,
               advertising |-> FALSE, connected |-> FALSE]

\* an operation without observable effect
Quiet == Op("", NULL, "loop", "", "", <<>>)

Init ==
  /\ running = TRUE
  /\ phase = [c \in Controllers |-> "UNINITIALIZED"]
  /\ failed = [c \in Controllers |-> FALSE]
  /\ ble_mode = [c \in Controllers |-> BLE_ONLY]
  /\ security_enabled = [c \in Controllers |-> TRUE]
  /\ ble_server = [c \in Controllers |-> NULL]
  /\ info_for_component = [c \in Controllers |-> EmptyMap]
  /\ handler_for_component = [c \in Controllers |-> EmptyMap]
  /\ callbacks = [c \in Controllers |-> [k \in Kinds |-> <<>>]]
  /\ deferred_functions_for_loop = [c \in Controllers |-> <<>>]
  /\ global_ble_controller = NULL
  /\ device = BootDevice
  /\ preference \in PreferenceInputs
  /\ timeouts = 0
  /\ loop_pc = "idle"
  /\ loop_self = NULL
  /\ deferred_function = <<>>
  /\ next_id = 1
  /\ pushed = [c \in Controllers |-> <<>>]
  /\ executed = <<>>
  /\ registrations = [c \in Controllers |-> [k \in Components |-> <<>>]]
  /\ last = Quiet

(***************************************************************************)
(* The loop thread runs one operation at a time.                           *)
(***************************************************************************)
SetupRunning(c) == phase[c] \notin {"UNINITIALIZED", "ADVERTISING", "HALTED"}

LoopThreadFree ==
  running /\ loop_pc = "idle" /\ \A c \in Controllers : ~SetupRunning(c)

\* a controller is constructed and configured when the ones before it are set up
Constructed(self) ==
  \A n \in 1..Len(SetupOrder) :
    (\E m \in (n + 1)..Len(SetupOrder) : SetupOrder[m] = self)
      => phase[SetupOrder[n]] \in {"ADVERTISING", "HALTED"}

(***************************************************************************)
(* Pre-setup configuration.                                                *)
(***************************************************************************)
\* a register_component that keeps the descriptor a component already has
\* (std::map::insert instead of operator[])
register_component_insert(self, component, info) ==
  /\ LoopThreadFree
  /\ Constructed(self)
  /\ phase[self] = "UNINITIALIZED"
  /\ Len(registrations[self][component]) < MaxRegistrations
  /\ info_for_component' =
       [info_for_component EXCEPT ![self] =
          IF component \in DOMAIN @ THEN @ ELSE MapPut(@, component, info)]
  /\ registrations' = [registrations EXCEPT ![self][component] = Append(@, info)]
  /\ last' = Quiet
  /\ UNCHANGED <<phase, failed, ble_mode, security_enabled, ble_server, handler_for_component,
                 callbacks, deferred_functions_for_loop, global_ble_controller, device,
                 preference, timeouts, loop_pc, loop_self, deferred_function, next_id,
                 pushed, executed, running>>

register_component(self, component, info) ==
  /\ LoopThreadFree
  /\ Constructed(self)
  /\ phase[self] = "UNINITIALIZED"
  /\ Len(registrations[self][component]) < MaxRegistrations
  /\ info_for_component' = [info_for_component EXCEPT ![self] = MapPut(@, component, info)]
  /\ registrations' = [registrations EXCEPT ![self][component] = Append(@, info)]
  /\ last' = Quiet
  /\ UNCHANGED <<phase, failed, ble_mode, security_enabled, ble_server, handler_for_component,
                 callbacks, deferred_functions_for_loop, global_ble_controller, device,
                 preference, timeouts, loop_pc, loop_self, deferred_function, next_id,
                 pushed, executed, running>>

RECURSIVE SumLen(_, _)
SumLen(lists, keys) ==
  IF keys = {} THEN 0
  ELSE LET k == CHOOSE x \in keys : TRUE IN Len(lists[k]) + SumLen(lists, keys \ {k})

RECURSIVE Registered(_)
Registered(cs) ==
  IF cs = {} THEN 0
  ELSE LET c == CHOOSE x \in cs : TRUE IN SumLen(callbacks[c], Kinds) + Registered(cs \ {c})

\* add_on_show_pass_key_callback, add_on_authentication_complete_callback,
\* add_on_connected_callback, add_on_disconnected_callback: CallbackManager::add
\* appends to the list; the n-th function registered on a list is named
\* ObserverNames[n]
add_on_callback(self, kind) ==
  /\ LoopThreadFree
  /\ Constructed(self)
  /\ phase[self] = "UNINITIALIZED"
  /\ Registered(Controllers) < MaxObservers
  /\ callbacks' = [callbacks EXCEPT ![self][kind] =
                     Append(@, ObserverNames[Len(@) + 1])]
  /\ last' = Quiet
  /\ UNCHANGED <<phase, failed, ble_mode, security_enabled, ble_server, info_for_component,
                 handler_for_component, deferred_functions_for_loop, global_ble_controller,
                 device, preference, timeouts, loop_pc, loop_self, deferred_function,
                 next_id, pushed, executed, running, registrations>>

set_security_enabled(self, enabled) ==
  /\ LoopThreadFree
  /\ Constructed(self)
  /\ phase[self] = "UNINITIALIZED"
  /\ security_enabled[self] # enabled
  /\ security_enabled' = [security_enabled EXCEPT ![self] = enabled]
  /\ last' = Quiet
  /\ UNCHANGED <<phase, failed, ble_mode, ble_server, info_for_component,
                 handler_for_component, callbacks, deferred_functions_for_loop,
                 global_ble_controller, device, preference, timeouts, loop_pc, loop_self,
                 deferred_function, next_id, pushed, executed, running, registrations>>

(***************************************************************************)
(* setup(), one action per step.                                           *)
(***************************************************************************)
LoadedMode(pref) == IF pref = <<>> THEN BLE_ONLY ELSE pref[1]

initialize_ble_mode(self) ==
  /\ LoopThreadFree
  /\ Constructed(self)
  /\ phase[self] = "UNINITIALIZED"
  /\ ble_mode' = [ble_mode EXCEPT ![self] = LoadedMode(preference)]
  /\ phase' = [phase EXCEPT ![self] = "MODE_LOADED"]
  /\ last' = Op("initialize_ble_mode", self, "loop", "", "", <<>>)
  /\ UNCHANGED <<failed, security_enabled, ble_server, info_for_component,
                 handler_for_component, callbacks, deferred_functions_for_loop,
                 global_ble_controller, device, preference, timeouts, loop_pc, loop_self,
                 deferred_function, next_id, pushed, executed, running, registrations>>

\* what btStart / esp_bluedroid_init / esp_bluedroid_enable answer
BleOutcomes == {"ok", "btStart failed", "esp_bluedroid_init failed", "esp_bluedroid_enable failed"}

\* a setup() that goes on after setup_ble has failed
setup_ble_continues(self) ==
  /\ running
  /\ phase[self] = "MODE_LOADED"
  /\ \E outcome \in BleOutcomes :
       LET ok == device.bt_started \/ outcome = "ok" IN
       /\ device.bt_started => outcome = "ok"
       /\ device' = [device EXCEPT !.bt_started = @ \/ outcome # "btStart failed"]
       /\ failed' = [failed EXCEPT ![self] = ~ok]
       /\ phase' = [phase EXCEPT ![self] = "RADIO_STARTED"]
       /\ last' = Op("setup_ble", self, "loop", outcome, "",
                     IF device.bt_started THEN <<>>
                     ELSE <<Effect("btStart", self, "", "", outcome)>>)
  /\ UNCHANGED <<ble_mode, security_enabled, ble_server, info_for_component,
                 handler_for_component, callbacks, deferred_functions_for_loop,
                 global_ble_controller, preference, timeouts, loop_pc, loop_self,
                 deferred_function, next_id, pushed, executed, running, registrations>>

setup_ble(self) ==
  /\ running
  /\ phase[self] = "MODE_LOADED"
  /\ \E outcome \in BleOutcomes :
       LET ok == device.bt_started \/ outcome = "ok" IN
       /\ device.bt_started => outcome = "ok"
       /\ device' = [device EXCEPT !.bt_started = @ \/ outcome # "btStart failed"]
       /\ failed' = [failed EXCEPT ![self] = ~ok]
       /\ phase' = [phase EXCEPT ![self] = IF ok THEN "RADIO_STARTED" ELSE "HALTED"]
       /\ last' = Op("setup_ble", self, "loop", outcome, "",
                     IF device.bt_started THEN <<>>
                     ELSE <<Effect("btStart", self, "", "", outcome)>>)
  /\ UNCHANGED <<ble_mode, security_enabled, ble_server, info_for_component,
                 handler_for_component, callbacks, deferred_functions_for_loop,
                 global_ble_controller, preference, timeouts, loop_pc, loop_self,
                 deferred_function, next_id, pushed, executed, running, registrations>>

\* a setup that stores this in global_ble_controller whatever it holds
register_global_overwrites(self) ==
  /\ running
  /\ phase[self] = "RADIO_STARTED"
  /\ global_ble_controller' = self
  /\ phase' = [phase EXCEPT ![self] = "REGISTERED"]
  /\ last' = Op("register_global", self, "loop", "", "", <<>>)
  /\ UNCHANGED <<failed, ble_mode, security_enabled, ble_server, info_for_component,
                 handler_for_component, callbacks, deferred_functions_for_loop, device,
                 preference, timeouts, loop_pc, loop_self, deferred_function, next_id,
                 pushed, executed, running, registrations>>

\* setup(), lines 75-82
register_global(self) ==
  /\ running
  /\ phase[self] = "RADIO_STARTED"
  /\ global_ble_controller' = IF global_ble_controller = NULL THEN self
                              ELSE global_ble_controller
  /\ phase' = [phase EXCEPT ![self] = "REGISTERED"]
  /\ last' = Op("register_global", self, "loop", "", "",
                IF global_ble_controller = NULL THEN <<>>
                ELSE <<Effect("log_error", self, "", "", "Already have an instance")>>)
  /\ UNCHANGED <<failed, ble_mode, security_enabled, ble_server, info_for_component,
                 handler_for_component, callbacks, deferred_functions_for_loop, device,
                 preference, timeouts, loop_pc, loop_self, deferred_function, next_id,
                 pushed, executed, running, registrations>>

\* the handler a factory of BLEComponentHandlerFactory creates
handler_creator(component, info) == [component |-> component, info |-> info]

setup_ble_service_for_component(handlers, infos, component) ==
  IF component \in DOMAIN infos
  THEN MapPut(handlers, component, handler_creator(component, infos[component]))
  ELSE handlers

RECURSIVE setup_ble_services_for_components(_, _, _)
setup_ble_services_for_components(handlers, infos, components) ==
  IF components = <<>> THEN handlers
  ELSE setup_ble_services_for_components(
         setup_ble_service_for_component(handlers, infos, Head(components)),
         infos, Tail(components))

\* the loop over handler_for_component that ends materialization
HandlerSetups(self, handlers) ==
  LET keys == SetToSeq(DOMAIN handlers) IN
  [n \in 1..Len(keys) |->
     IF handlers[keys[n]] = null_handler
     THEN Effect("null_dereference", self, "handler_setup", keys[n], "")
     ELSE Effect("handler_setup", self, handlers[keys[n]].info, keys[n], "")]

HasNullDereference(effects) ==
  \E n \in 1..Len(effects) : effects[n].type = "null_dereference"

setup_ble_server_and_services(self) ==
  /\ running
  /\ phase[self] = "REGISTERED"
  /\ LET materialize == ble_mode[self] # WIFI_ONLY
         handlers == IF materialize
                     THEN setup_ble_services_for_components(
                            handler_for_component[self], info_for_component[self],
                            SetToSeq(Components))
                     ELSE handler_for_component[self]
         effects == <<Effect("createServer", self, "", "", ""),
                      Effect("setCallbacks", self, "", "", "")>>
                    \o (IF materialize THEN HandlerSetups(self, handlers) ELSE <<>>)
     IN
     \* a call through a null handler is undefined: the device crashes and
     \* restarts, or the call has no effect
     \E crash \in {FALSE, HasNullDereference(effects)} :
       /\ running' = ~crash
       /\ ble_server' = [ble_server EXCEPT ![self] = "server"]
       /\ device' = [device EXCEPT !.server_callbacks = self]
       /\ handler_for_component' = [handler_for_component EXCEPT ![self] = handlers]
       /\ phase' = [phase EXCEPT ![self] = IF crash THEN "HALTED" ELSE "SERVER_CREATED"]
       /\ last' = Op("setup_ble_server_and_services", self, "loop", "", BoolStr(crash), effects)
  /\ UNCHANGED <<failed, ble_mode, security_enabled, info_for_component, callbacks,
                 deferred_functions_for_loop, global_ble_controller, preference,
                 timeouts, loop_pc, loop_self, deferred_function, next_id, pushed,
                 executed, registrations>>

\* setup(), lines 86-88: setup_controller() and enable_ble_security()
enable_ble_security(self) ==
  /\ running
  /\ phase[self] = "SERVER_CREATED"
  /\ device' = IF security_enabled[self]
               THEN [device EXCEPT !.security_callbacks = self]
               ELSE device
  /\ phase' = [phase EXCEPT ![self] = "SECURITY_CONFIGURED"]
  /\ last' = Op("enable_ble_security", self, "loop", "", "",
                IF security_enabled[self]
                THEN <<Effect("setSecurityCallbacks", self, "", "", "")>> ELSE <<>>)
  /\ UNCHANGED <<failed, ble_mode, security_enabled, ble_server, info_for_component,
                 handler_for_component, callbacks, deferred_functions_for_loop,
                 global_ble_controller, preference, timeouts, loop_pc, loop_self,
                 deferred_function, next_id, pushed, executed, running, registrations>>

\* a setup that starts advertising before it creates the server
start_advertising_early(self) ==
  /\ running
  /\ phase[self] = "REGISTERED"
  /\ device' = [device EXCEPT !.advertising = TRUE]
  /\ phase' = [phase EXCEPT ![self] = "ADVERTISING"]
  /\ last' = Op("start_advertising", self, "loop", "", "",
                <<Effect("startAdvertising", self, "", "", "")>>)
  /\ UNCHANGED <<failed, ble_mode, security_enabled, ble_server, info_for_component,
                 handler_for_component, callbacks, deferred_functions_for_loop,
                 global_ble_controller, preference, timeouts, loop_pc, loop_self,
                 deferred_function, next_id, pushed, executed, running, registrations>>

\* setup(), line 96
start_advertising(self) ==
  /\ running
  /\ phase[self] = "SECURITY_CONFIGURED"
  /\ device' = [device EXCEPT !.advertising = TRUE]
  /\ phase' = [phase EXCEPT ![self] = "ADVERTISING"]
  /\ last' = Op("start_advertising", self, "loop", "", "",
                <<Effect("startAdvertising", self, "", "", "")>>)
  /\ UNCHANGED <<failed, ble_mode, security_enabled, ble_server, info_for_component,
                 handler_for_component, callbacks, deferred_functions_for_loop,
                 global_ble_controller, preference, timeouts, loop_pc, loop_self,
                 deferred_function, next_id, pushed, executed, running, registrations>>

(***************************************************************************)
(* The deferred queue (ThreadSafeBoundedQueue): push fails on a full queue *)
(* and take on an empty one; neither waits.                                *)
(***************************************************************************)
push(queue, object) ==
  IF Len(queue) < QueueCapacity
  THEN [ok |-> TRUE, queue |-> Append(queue, object)]
  ELSE [ok |-> FALSE, queue |-> queue]

take(queue) ==
  IF queue = <<>>
  THEN [ok |-> FALSE, queue |-> queue, object |-> <<>>]
  ELSE [ok |-> TRUE, queue |-> Tail(queue), object |-> <<Head(queue)>>]

\* a work item: the closure's kind, the controller whose callback list it captured,
\* its captured payload, and the thread that enqueued it
Item(kind, self, arg, by) == [id |-> next_id, kind |-> kind, self |-> self, arg |-> arg, by |-> by]

\* execute_in_loop that makes room in a full queue by dropping the oldest item
execute_in_loop_overwrite(target, queue, item) ==
  LET r == push(IF Len(queue) < QueueCapacity THEN queue ELSE Tail(queue), item) IN
  [ok |-> r.ok, queue |-> r.queue,
   effects |-> <<Effect("push", target, item.kind, item.by, IF r.ok THEN "ok" ELSE "failed")>>]

\* execute_in_loop on controller target: the new queue and what the call did
execute_in_loop(target, queue, item) ==
  LET r == push(queue, item) IN
  [ok |-> r.ok, queue |-> r.queue,
   effects |-> <<Effect("push", target, item.kind, item.by, IF r.ok THEN "ok" ELSE "failed")>>
               \o (IF r.ok THEN <<>>
                   ELSE <<Effect("log_warning", target, "", "", "Deferred functions queue full")>>)]

\* global_ble_controller->execute_in_loop(item), as the stack callbacks call it
EnqueueGlobal(item) ==
  IF global_ble_controller = NULL
  THEN [ok |-> FALSE, target |-> NULL, queue |-> <<>>,
        effects |-> <<Effect("null_dereference", NULL, "global_ble_controller", "", "")>>]
  ELSE LET r == execute_in_loop(global_ble_controller,
                                deferred_functions_for_loop[global_ble_controller], item)
       IN [ok |-> r.ok, target |-> global_ble_controller, queue |-> r.queue,
           effects |-> r.effects]

\* the state change of an enqueue attempt r on the queue of r.target
Enqueued(r, item) ==
  /\ next_id' = next_id + 1
  /\ IF r.target = NULL
     THEN UNCHANGED <<deferred_functions_for_loop, pushed>>
     ELSE /\ deferred_functions_for_loop' =
               [deferred_functions_for_loop EXCEPT ![r.target] = r.queue]
          /\ pushed' = IF r.ok
                       THEN [pushed EXCEPT ![r.target] =
                               Append(@, [id |-> item.id, by |-> item.by])]
                       ELSE pushed

(***************************************************************************)
(* snprintf(buffer, PASS_KEY_LENGTH + 1, "%06d", pass_key)                 *)
(***************************************************************************)
Digit(d) == SubSeq("0123456789", d + 1, d + 1)

RECURSIVE Decimal(_)
Decimal(n) == IF n < 10 THEN Digit(n) ELSE Decimal(n \div 10) \o Digit(n % 10)

RECURSIVE ZeroPad(_, _)
ZeroPad(str, width) == IF Len(str) >= width THEN str ELSE ZeroPad("0" \o str, width)

Truncate(str, size) == IF Len(str) <= size THEN str ELSE SubSeq(str, 1, size)

\* "%06d": the sign, if any, comes before the padding zeros
Printf06d(value) ==
  IF value < 0 THEN "-" \o ZeroPad(Decimal(0 - value), PASS_KEY_LENGTH - 1)
  ELSE ZeroPad(Decimal(value), PASS_KEY_LENGTH)

\* a format without the zero flag and width
FormatPassKey_unpadded(pass_key) ==
  Truncate(IF pass_key < 0 THEN "-" \o Decimal(0 - pass_key) ELSE Decimal(pass_key),
           PASS_KEY_LENGTH)

FormatPassKey(pass_key) == Truncate(Printf06d(pass_key), PASS_KEY_LENGTH)

(***************************************************************************)
(* Callbacks of the BLE stack, run by the stack thread.                    *)
(***************************************************************************)
StackUnchanged == <<phase, failed, ble_mode, security_enabled, ble_server,
                    info_for_component, handler_for_component, callbacks,
                    global_ble_controller, preference, timeouts, loop_pc, loop_self,
                    deferred_function, executed, running, registrations>>

StackCallback(called, item) ==
  LET r == EnqueueGlobal(item) IN
  /\ running
  /\ next_id <= MaxItems
  /\ Enqueued(r, item)
  /\ last' = [called EXCEPT !.effects = r.effects]
  /\ UNCHANGED StackUnchanged

onPassKeyNotify(self, pass_key) ==
  /\ device.security_callbacks = self
  /\ device.connected
  /\ StackCallback(WithNum(Op("onPassKeyNotify", self, "stack", "", "", <<>>), pass_key),
                   Item("show_pass_key", self, FormatPassKey(pass_key), "stack"))
  /\ UNCHANGED device

onAuthenticationComplete(self, success) ==
  /\ device.security_callbacks = self
  /\ device.connected
  /\ StackCallback(Op("onAuthenticationComplete", self, "stack", BoolStr(success), "", <<>>),
                   Item("authentication_complete", self, BoolStr(success), "stack"))
  /\ UNCHANGED device

\* an onPassKeyRequest whose answer depends on the enqueue
onPassKeyRequest_unless_full(self) ==
  LET item == Item("log", self, "onPassKeyRequest", "stack") IN
  /\ device.security_callbacks = self
  /\ device.connected
  /\ StackCallback(WithValue(Op("onPassKeyRequest", self, "stack", "", "", <<>>),
                             IF EnqueueGlobal(item).ok THEN FIXED_PASS_KEY ELSE 0), item)
  /\ UNCHANGED device

onPassKeyRequest(self) ==
  /\ device.security_callbacks = self
  /\ device.connected
  /\ StackCallback(WithValue(Op("onPassKeyRequest", self, "stack", "", "", <<>>),
                             FIXED_PASS_KEY),
                   Item("log", self, "onPassKeyRequest", "stack"))
  /\ UNCHANGED device

onSecurityRequest(self) ==
  /\ device.security_callbacks = self
  /\ device.connected
  /\ StackCallback(Op("onSecurityRequest", self, "stack", "", BoolStr(TRUE), <<>>),
                   Item("log", self, "onSecurityRequest", "stack"))
  /\ UNCHANGED device

onConfirmPIN(self, pin) ==
  /\ device.security_callbacks = self
  /\ device.connected
  /\ StackCallback(WithNum(Op("onConfirmPIN", self, "stack", "", BoolStr(TRUE), <<>>), pin),
                   Item("log", self, "onConfirmPIN", "stack"))
  /\ UNCHANGED device

\* an onConnect that calls the observers itself
onConnect_synchronous(self) ==
  /\ running
  /\ device.server_callbacks = self
  /\ device.advertising
  /\ ~device.connected
  /\ device' = [device EXCEPT !.connected = TRUE, !.advertising = FALSE]
  /\ last' = Op("onConnect", self, "stack", "", "",
                [n \in 1..Len(callbacks[self]["connected"]) |->
                   Effect("observer", self, "connected", callbacks[self]["connected"][n], "")])
  /\ UNCHANGED <<deferred_functions_for_loop, pushed, next_id>>
  /\ UNCHANGED StackUnchanged

\* a central can connect while the peripheral advertises; advertising stops then
onConnect(self) ==
  /\ device.server_callbacks = self
  /\ device.advertising
  /\ ~device.connected
  /\ StackCallback(Op("onConnect", self, "stack", "", "", <<>>),
                   Item("connected", self, "", "stack"))
  /\ device' = [device EXCEPT !.connected = TRUE, !.advertising = FALSE]

onDisconnect(self) ==
  /\ device.server_callbacks = self
  /\ device.connected
  /\ StackCallback(Op("onDisconnect", self, "stack", "", "", <<>>),
                   Item("disconnected", self, "", "stack"))
  /\ device' = [device EXCEPT !.connected = FALSE]

(***************************************************************************)
(* Operations of the loop thread.                                          *)
(***************************************************************************)
\* execute_in_loop called by application code on the loop thread; a closure
\* of kind "user_spawn" enqueues another closure when it runs
UserKinds == {"user", "user_spawn"}

execute_in_loop_call(self, kind) ==
  LET item == Item(kind, self, "", "loop")
      r == execute_in_loop(self, deferred_functions_for_loop[self], item)
  IN
  /\ LoopThreadFree
  /\ phase[self] = "ADVERTISING"
  /\ next_id <= MaxItems
  /\ Enqueued([ok |-> r.ok, target |-> self, queue |-> r.queue], item)
  /\ last' = Op("execute_in_loop", self, "loop", kind, "", r.effects)
  /\ UNCHANGED <<phase, failed, ble_mode, security_enabled, ble_server, info_for_component,
                 handler_for_component, callbacks, global_ble_controller, device,
                 preference, timeouts, loop_pc, loop_self, deferred_function, executed, running,
                 registrations>>

\* the application calls loop() of every controller that was set up and has not failed
loop_enter(self) ==
  /\ LoopThreadFree
  /\ phase[self] = "ADVERTISING"
  /\ loop_pc' = "take"
  /\ loop_self' = self
  /\ last' = Quiet
  /\ UNCHANGED <<phase, failed, ble_mode, security_enabled, ble_server, info_for_component,
                 handler_for_component, callbacks, deferred_functions_for_loop,
                 global_ble_controller, device, preference, timeouts, deferred_function,
                 next_id, pushed, executed, running, registrations>>

\* a loop() that takes the first work item and clears the queue
loop_take_clears ==
  LET r == take(deferred_functions_for_loop[loop_self]) IN
  /\ running
  /\ loop_pc = "take"
  /\ deferred_functions_for_loop' = [deferred_functions_for_loop EXCEPT ![loop_self] = <<>>]
  /\ deferred_function' = r.object
  /\ loop_pc' = IF r.ok THEN "invoke" ELSE "idle"
  /\ loop_self' = IF r.ok THEN loop_self ELSE NULL
  /\ last' = Quiet
  /\ UNCHANGED <<phase, failed, ble_mode, security_enabled, ble_server, info_for_component,
                 handler_for_component, callbacks, global_ble_controller, device,
                 preference, timeouts, next_id, pushed, executed, running, registrations>>

\* while (deferred_functions_for_loop.take(deferred_function))
loop_take ==
  LET r == take(deferred_functions_for_loop[loop_self]) IN
  /\ running
  /\ loop_pc = "take"
  /\ deferred_functions_for_loop' = [deferred_functions_for_loop EXCEPT ![loop_self] = r.queue]
  /\ deferred_function' = r.object
  /\ loop_pc' = IF r.ok THEN "invoke" ELSE "idle"
  /\ loop_self' = IF r.ok THEN loop_self ELSE NULL
  /\ last' = Quiet
  /\ UNCHANGED <<phase, failed, ble_mode, security_enabled, ble_server, info_for_component,
                 handler_for_component, callbacks, global_ble_controller, device,
                 preference, timeouts, next_id, pushed, executed, running, registrations>>

\* CallbackManager::call runs the callbacks in the order of the list
call(owner, kind, arg) ==
  [n \in 1..Len(callbacks[owner][kind]) |->
     Effect("observer", owner, kind, callbacks[owner][kind][n], arg)]

\* the body of the closure a stack callback enqueued
InvokeEffects(item) ==
  IF item.kind = "disconnected"
  THEN <<Effect("set_timeout", item.self, "", "", "startAdvertising")>>
       \o call(item.self, "disconnected", item.arg)
  ELSE IF item.kind \in Kinds THEN call(item.self, item.kind, item.arg)
  ELSE <<>>

\* a loop() that takes the item and does not call it
loop_invoke_skipped ==
  LET item == deferred_function[1]
      spawn == item.kind = "user_spawn" /\ next_id <= MaxItems
      child == Item("user", loop_self, "", "loop")
      r == execute_in_loop(loop_self, deferred_functions_for_loop[loop_self], child)
  IN
  /\ running
  /\ loop_pc = "invoke"
  /\ executed' = executed
  /\ timeouts' = IF item.kind = "disconnected" THEN timeouts + 1 ELSE timeouts
  /\ IF spawn
     THEN Enqueued([ok |-> r.ok, target |-> loop_self, queue |-> r.queue], child)
     ELSE UNCHANGED <<deferred_functions_for_loop, pushed, next_id>>
  /\ deferred_function' = <<>>
  /\ loop_pc' = "take"
  /\ last' = WithItem(Op("invoke", loop_self, "loop", "", "",
                         InvokeEffects(item) \o (IF spawn THEN r.effects ELSE <<>>)), item)
  /\ UNCHANGED <<phase, failed, ble_mode, security_enabled, ble_server, info_for_component,
                 handler_for_component, callbacks, global_ble_controller, device,
                 preference, loop_self, running, registrations>>

\* deferred_function()
loop_invoke ==
  LET item == deferred_function[1]
      spawn == item.kind = "user_spawn" /\ next_id <= MaxItems
      child == Item("user", loop_self, "", "loop")
      r == execute_in_loop(loop_self, deferred_functions_for_loop[loop_self], child)
  IN
  /\ running
  /\ loop_pc = "invoke"
  /\ executed' = Append(executed, [queue |-> loop_self, id |-> item.id, by |-> item.by,
                                    kind |-> item.kind, self |-> item.self])
  /\ timeouts' = IF item.kind = "disconnected" THEN timeouts + 1 ELSE timeouts
  /\ IF spawn
     THEN Enqueued([ok |-> r.ok, target |-> loop_self, queue |-> r.queue], child)
     ELSE UNCHANGED <<deferred_functions_for_loop, pushed, next_id>>
  /\ deferred_function' = <<>>
  /\ loop_pc' = "take"
  /\ last' = WithItem(Op("invoke", loop_self, "loop", "", "",
                         InvokeEffects(item) \o (IF spawn THEN r.effects ELSE <<>>)), item)
  /\ UNCHANGED <<phase, failed, ble_mode, security_enabled, ble_server, info_for_component,
                 handler_for_component, callbacks, global_ble_controller, device,
                 preference, loop_self, running, registrations>>

\* the one-shot timeout set by the disconnected closure: BLEDevice::startAdvertising()
timeout_fires ==
  /\ LoopThreadFree
  /\ timeouts > 0
  /\ timeouts' = timeouts - 1
  /\ device' = [device EXCEPT !.advertising = TRUE]
  /\ last' = Op("timeout", NULL, "loop", "", "",
                <<Effect("startAdvertising", NULL, "", "", "")>>)
  /\ UNCHANGED <<phase, failed, ble_mode, security_enabled, ble_server, info_for_component,
                 handler_for_component, callbacks, deferred_functions_for_loop,
                 global_ble_controller, preference, loop_pc, loop_self, deferred_function,
                 next_id, pushed, executed, running, registrations>>

\* handler_for_component[object_id]: std::map::operator[] inserts a null entry
\* for a key that is absent
lookup_handler(handlers, object_id) ==
  IF object_id \in DOMAIN handlers THEN handlers
  ELSE MapPut(handlers, object_id, null_handler)

update_component_state(self, component) ==
  LET handlers == lookup_handler(handler_for_component[self], component)
      handler == handlers[component]
  IN
  /\ LoopThreadFree
  /\ Constructed(self)
  /\ handler_for_component' = [handler_for_component EXCEPT ![self] = handlers]
  /\ last' = Op("update_component_state", self, "loop", component, "",
                IF handler # null_handler
                THEN <<Effect("send_value", self, handler.info, component, "state")>>
                ELSE <<>>)
  /\ UNCHANGED <<phase, failed, ble_mode, security_enabled, ble_server, info_for_component,
                 callbacks, deferred_functions_for_loop, global_ble_controller, device,
                 preference, timeouts, loop_pc, loop_self, deferred_function, next_id,
                 pushed, executed, running, registrations>>

\* ble_mode_preference.save(&ble_mode): the write may fail
save(pref, value, ok) == IF ok THEN <<value>> ELSE pref

\* a set_ble_mode that does not compare the new mode with the current one
set_ble_mode_unconditional(self, newMode) ==
  /\ LoopThreadFree
  /\ phase[self] = "ADVERTISING"
  /\ IF newMode > WIFI_ONLY
     THEN /\ last' = WithNum(Op("set_ble_mode", self, "loop", "", "",
                        <<Effect("log_info", self, "", "", "Ignoring unsupported BLE mode")>>), newMode)
          /\ UNCHANGED <<ble_mode, preference, running>>
     ELSE \E ok \in BOOLEAN :
            /\ ble_mode' = [ble_mode EXCEPT ![self] = newMode]
            /\ preference' = save(preference, ble_mode'[self], ok)
            \* App.safe_reboot(): the device restarts
            /\ running' = FALSE
            /\ last' = WithNum(Op("set_ble_mode", self, "loop", "", "",
                          <<EffectNum("save", self, BoolStr(ok), "", ble_mode'[self]),
                            Effect("safe_reboot", self, "", "", "")>>), newMode)
  /\ UNCHANGED <<phase, failed, security_enabled, ble_server, info_for_component,
                 handler_for_component, callbacks, deferred_functions_for_loop,
                 global_ble_controller, device, timeouts, loop_pc, loop_self,
                 deferred_function, next_id, pushed, executed, registrations>>

set_ble_mode(self, newMode) ==
  /\ LoopThreadFree
  /\ phase[self] = "ADVERTISING"
  /\ IF newMode > WIFI_ONLY
     THEN /\ last' = WithNum(Op("set_ble_mode", self, "loop", "", "",
                        <<Effect("log_info", self, "", "", "Ignoring unsupported BLE mode")>>), newMode)
          /\ UNCHANGED <<ble_mode, preference, running>>
     ELSE IF ble_mode[self] = newMode
     THEN /\ last' = WithNum(Op("set_ble_mode", self, "loop", "", "", <<>>), newMode)
          /\ UNCHANGED <<ble_mode, preference, running>>
     ELSE \E ok \in BOOLEAN :
            /\ ble_mode' = [ble_mode EXCEPT ![self] = newMode]
            /\ preference' = save(preference, ble_mode'[self], ok)
            \* App.safe_reboot(): the device restarts
            /\ running' = FALSE
            /\ last' = WithNum(Op("set_ble_mode", self, "loop", "", "",
                          <<EffectNum("save", self, BoolStr(ok), "", ble_mode'[self]),
                            Effect("safe_reboot", self, "", "", "")>>), newMode)
  /\ UNCHANGED <<phase, failed, security_enabled, ble_server, info_for_component,
                 handler_for_component, callbacks, deferred_functions_for_loop,
                 global_ble_controller, device, timeouts, loop_pc, loop_self,
                 deferred_function, next_id, pushed, executed, registrations>>

(***************************************************************************)
(* The specification.                                                      *)
(***************************************************************************)
Next ==
  \/ \E self \in Controllers, component \in Components, info \in Descriptors :
       register_component(self, component, info)
  \/ \E self \in Controllers, kind \in Kinds : add_on_callback(self, kind)
  \/ \E self \in Controllers, enabled \in BOOLEAN : set_security_enabled(self, enabled)
  \/ \E self \in Controllers : initialize_ble_mode(self)
  \/ \E self \in Controllers : setup_ble(self)
  \/ \E self \in Controllers : register_global(self)
  \/ \E self \in Controllers : setup_ble_server_and_services(self)
  \/ \E self \in Controllers : enable_ble_security(self)
  \/ \E self \in Controllers : start_advertising(self)
  \/ \E self \in Controllers, pass_key \in PassKeys : onPassKeyNotify(self, pass_key)
  \/ \E self \in Controllers, success \in BOOLEAN : onAuthenticationComplete(self, success)
  \/ \E self \in Controllers : onPassKeyRequest(self)
  \/ \E self \in Controllers : onSecurityRequest(self)
  \/ \E self \in Controllers : onConfirmPIN(self, FIXED_PASS_KEY)
  \/ \E self \in Controllers : onConnect(self)
  \/ \E self \in Controllers : onDisconnect(self)
  \/ \E self \in Controllers, kind \in UserKinds : execute_in_loop_call(self, kind)
  \/ \E self \in Controllers : loop_enter(self)
  \/ loop_take
  \/ loop_invoke
  \/ timeout_fires
  \/ \E self \in Controllers, component \in Components : update_component_state(self, component)
  \/ \E self \in Controllers, newMode \in ModeInputs : set_ble_mode(self, newMode)

Spec == Init /\ [][Next]_vars

(***************************************************************************)
(* Scenarios: the same program with an environment that uses a part of it. *)
(***************************************************************************)
Setup(cs) ==
  \/ \E self \in cs : initialize_ble_mode(self)
  \/ \E self \in cs : setup_ble(self)
  \/ \E self \in cs : register_global(self)
  \/ \E self \in cs : setup_ble_server_and_services(self)
  \/ \E self \in cs : enable_ble_security(self)
  \/ \E self \in cs : start_advertising(self)

Drain(cs) ==
  \/ \E self \in cs : loop_enter(self)
  \/ loop_take
  \/ loop_invoke
  \/ timeout_fires

\* the deferred queues, fed by the stack thread and the loop thread
NextQueue ==
  \/ Setup(Controllers)
  \/ Drain(Controllers)
  \/ \E self \in Controllers : onConnect(self)
  \/ \E self \in Controllers : onDisconnect(self)
  \/ \E self \in Controllers, success \in BOOLEAN : onAuthenticationComplete(self, success)
  \/ \E self \in Controllers : onPassKeyRequest(self)
  \/ \E self \in Controllers : onSecurityRequest(self)
  \/ \E self \in Controllers : onConfirmPIN(self, FIXED_PASS_KEY)
  \/ \E self \in Controllers, pass_key \in PassKeys : onPassKeyNotify(self, pass_key)
  \/ \E self \in Controllers, kind \in UserKinds : execute_in_loop_call(self, kind)

SpecQueue == Init /\ [][NextQueue]_vars

\* the controller that is set up first
First == {SetupOrder[1]}

\* setup() runs to its end once it was entered
SetupContinues(cs) ==
  \/ \E self \in cs : setup_ble(self)
  \/ \E self \in cs : register_global(self)
  \/ \E self \in cs : setup_ble_server_and_services(self)
  \/ \E self \in cs : enable_ble_security(self)
  \/ \E self \in cs : start_advertising(self)

\* what every step of setup() and of loop() changes
loop_thread == <<phase, loop_pc, executed>>

\* the loop thread keeps running: it finishes setup() and loop(), and calls
\* loop() of every controller that was set up again and again
LoopKeepsRunning ==
  /\ WF_loop_thread(SetupContinues(Controllers))
  /\ WF_loop_thread(loop_take)
  /\ WF_loop_thread(loop_invoke)
  /\ \A self \in Controllers : SF_loop_thread(loop_enter(self))

\* one controller's deferred queue, fed by the stack thread and by the loop
\* thread, and drained by a loop thread that keeps running
NextDrain ==
  \/ Setup(First)
  \/ Drain(First)
  \/ \E self \in First : onConnect(self)
  \/ \E self \in First : onDisconnect(self)
  \/ \E self \in First, kind \in UserKinds : execute_in_loop_call(self, kind)

SpecDrain == Init /\ [][NextDrain]_vars

FairSpecDrain == SpecDrain /\ LoopKeepsRunning

\* two controllers with observers, and the events of the stack
NextObservers ==
  \/ \E self \in Controllers, kind \in Kinds : add_on_callback(self, kind)
  \/ Setup(Controllers)
  \/ Drain(Controllers)
  \/ \E self \in Controllers : onConnect(self)
  \/ \E self \in Controllers : onDisconnect(self)
  \/ \E self \in Controllers, success \in BOOLEAN : onAuthenticationComplete(self, success)
  \/ \E self \in Controllers, pass_key \in PassKeys : onPassKeyNotify(self, pass_key)

SpecObservers == Init /\ [][NextObservers]_vars

\* the first controller with show-passkey observers, and pass keys of every size
NextPassKey ==
  \/ \E self \in First : add_on_callback(self, "show_pass_key")
  \/ Setup(First)
  \/ Drain(First)
  \/ \E self \in First : onConnect(self)
  \/ \E self \in First : onDisconnect(self)
  \/ \E self \in First, pass_key \in PassKeyInputs : onPassKeyNotify(self, pass_key)

SpecPassKey == Init /\ [][NextPassKey]_vars

\* the registries and the mode
NextRegistry ==
  \/ \E self \in Controllers, component \in Components, info \in Descriptors :
       register_component(self, component, info)
  \/ \E self \in Controllers, enabled \in BOOLEAN : set_security_enabled(self, enabled)
  \/ Setup(Controllers)
  \/ \E self \in Controllers, component \in Components : update_component_state(self, component)
  \/ \E self \in Controllers, newMode \in ModeInputs : set_ble_mode(self, newMode)

SpecRegistry == Init /\ [][NextRegistry]_vars

\* the first controller with observers and the stack's security callbacks
NextSecurity ==
  \/ \E self \in First, kind \in Kinds : add_on_callback(self, kind)
  \/ Setup(First)
  \/ Drain(First)
  \/ \E self \in First : onConnect(self)
  \/ \E self \in First : onDisconnect(self)
  \/ \E self \in First : onPassKeyRequest(self)
  \/ \E self \in First : onSecurityRequest(self)
  \/ \E self \in First, pin \in PassKeys : onConfirmPIN(self, pin)

SpecSecurity == Init /\ [][NextSecurity]_vars

(***************************************************************************)
(* Properties.                                                             *)
(***************************************************************************)
IsPrefix(s, t) == Len(s) <= Len(t) /\ \A n \in 1..Len(s) : s[n] = t[n]

Ids(s) == [n \in 1..Len(s) |-> s[n].id]

Threads == {"stack", "loop"}

Occurrences(s, id) == Cardinality({n \in 1..Len(s) : s[n].id = id})

InHand(c) == IF loop_self = c THEN deferred_function ELSE <<>>

ExecutedFrom(c) == SelectSeq(executed, LAMBDA e : e.queue = c)

By(s, thread) == SelectSeq(s, LAMBDA e : e.by = thread)

PushEffects(op) == SelectSeq(op.effects, LAMBDA e : e.type = "push")

ObserverEffects(op) == SelectSeq(op.effects, LAMBDA e : e.type = "observer")

HasEffect(op, type) == \E n \in 1..Len(op.effects) : op.effects[n].type = type

\* C1: every work item a queue accepted is waiting in that queue, held by
\* loop(), or invoked, exactly one of the three and exactly once (never
\* invoked twice, never lost); nothing else is invoked; and the items one
\* thread enqueued are invoked in the order in which it enqueued them.
C1_ExactlyOnceInOrder ==
  \A c \in Controllers :
    /\ \A n \in 1..Len(pushed[c]) :
         Occurrences(deferred_functions_for_loop[c], pushed[c][n].id)
           + Occurrences(InHand(c), pushed[c][n].id)
           + Occurrences(executed, pushed[c][n].id) = 1
    /\ Len(deferred_functions_for_loop[c]) + Len(InHand(c)) + Len(ExecutedFrom(c))
         = Len(pushed[c])
    /\ \A t \in Threads :
         IsPrefix(Ids(By(ExecutedFrom(c), t)), Ids(By(pushed[c], t)))

C1_Witness ==
  \E c \in Controllers :
    /\ Len(By(ExecutedFrom(c), "stack")) >= 2
    /\ Len(By(ExecutedFrom(c), "loop")) >= 1

\* what a step that attempts an enqueue on a full queue does
C2_FullEnqueueFails ==
  \A n \in 1..Len(PushEffects(last')) :
    LET e == PushEffects(last')[n] IN
    Len(deferred_functions_for_loop[e.self]) = QueueCapacity =>
      /\ e.arg = "failed"
      /\ deferred_functions_for_loop'[e.self] = deferred_functions_for_loop[e.self]
      /\ pushed' = pushed
      /\ last'.thread = "stack" =>
           /\ loop_pc' = loop_pc
           /\ deferred_function' = deferred_function
           /\ executed' = executed

\* C2: a queue never holds more items than its capacity, and an enqueue on a
\* full queue fails, leaves the queued items as they are, drops the new item
\* and, called by the stack thread, completes in its own step without the
\* loop thread taking one.
C2_BoundedQueue ==
  /\ [](\A c \in Controllers : Len(deferred_functions_for_loop[c]) <= QueueCapacity)
  /\ [][C2_FullEnqueueFails]_vars

C2_Witness ==
  /\ last.thread = "stack"
  /\ \E n \in 1..Len(PushEffects(last)) :
       /\ PushEffects(last)[n].arg = "failed"
       /\ Len(deferred_functions_for_loop[PushEffects(last)[n].self]) = QueueCapacity

\* the restart of advertising is on its way
RestartPending ==
  \/ timeouts > 0
  \/ \E c \in Controllers :
       \E n \in 1..Len(deferred_functions_for_loop[c]) :
         deferred_functions_for_loop[c][n].kind = "disconnected"

\* C10: when onDisconnect has returned, the restart of advertising is on its
\* way whatever the state of the queue was: the timeout is set, or the closure
\* that sets it is in the deferred queue.
C10_RestartAfterEveryDisconnect == last.op = "onDisconnect" => RestartPending

\* C3: observers are called by the loop thread only, in the step of loop()
\* that invokes a work item, never in a callback of the stack; and the step
\* that invokes the item of an event calls all observers of that kind of the
\* controller that received the event, with the event's payload, in the order
\* of their registration.
C3_ObserversOnLoopInOrder ==
  LET calls == ObserverEffects(last) IN
  /\ calls # <<>> => last.thread = "loop" /\ last.op = "invoke"
  /\ last.op = "invoke" =>
       LET item == last.item IN
       IF item.kind \in Kinds
       THEN /\ Len(calls) = Len(callbacks[item.self][item.kind])
            /\ \A n \in 1..Len(calls) :
                 /\ calls[n].who = ObserverNames[n]
                 /\ calls[n].self = item.self
                 /\ calls[n].kind = item.kind
                 /\ calls[n].arg = item.arg
       ELSE calls = <<>>

C3_Witness == last.op = "invoke" /\ Len(ObserverEffects(last)) >= 2

\* what a step of update_component_state without a live handler does
C4_PublishStep ==
  last'.op = "update_component_state" =>
    LET self == last'.self
        component == last'.arg
    IN
    (\/ component \notin DOMAIN info_for_component[self]
     \/ component \notin DOMAIN handler_for_component[self]
     \/ handler_for_component[self][component] = null_handler) =>
      /\ ~HasEffect(last', "send_value")
      /\ info_for_component' = info_for_component
      /\ DOMAIN handler_for_component'[self] = DOMAIN handler_for_component[self]
      /\ handler_for_component' = handler_for_component
      /\ deferred_functions_for_loop' = deferred_functions_for_loop
      /\ ble_mode' = ble_mode

\* C4: update_component_state for a component without a descriptor or
\* without a live handler sends no value and leaves the descriptor registry,
\* the handler registry and its keys, the deferred queues and the mode as
\* they are.
C4_PublishWithoutHandlerIsNoOp == [][C4_PublishStep]_vars

\* what a step of set_ble_mode does, by the value it is given
EffectsOf(op, type) == SelectSeq(op.effects, LAMBDA e : e.type = type)

C5_SetModeStep ==
  last'.op = "set_ble_mode" =>
    LET self == last'.self
        newMode == last'.num
        saves == EffectsOf(last', "save")
        reboots == EffectsOf(last', "safe_reboot")
    IN
    IF newMode > WIFI_ONLY \/ newMode = ble_mode[self]
    THEN /\ saves = <<>> /\ reboots = <<>>
         /\ ble_mode' = ble_mode
         /\ preference' = preference
         /\ running'
    ELSE /\ Len(saves) = 1 /\ saves[1].num = newMode
         /\ Len(reboots) = 1
         /\ last'.effects[1].type = "save"
         /\ last'.effects[Len(last'.effects)].type = "safe_reboot"
         /\ ~running'

\* C5: set_ble_mode with the current mode writes nothing and requests no
\* restart; with another valid mode it writes the new value once and then
\* requests one restart; with a value above WIFI_ONLY it changes neither
\* the mode in memory nor the persisted one and requests no restart.
C5_SetMode == [][C5_SetModeStep]_vars

C5_Witness == last.op = "set_ble_mode" /\ HasEffect(last, "safe_reboot")

\* what a step of set_ble_mode does to the two copies of the mode
C6_SetModeStep ==
  last'.op = "set_ble_mode" =>
    LET self == last'.self
        newMode == last'.num
    IN
    /\ \/ ble_mode'[self] = ble_mode[self] /\ preference' = preference
       \/ ble_mode'[self] = newMode /\ preference' = <<newMode>>
    /\ ~running' => LoadedMode(preference') = ble_mode'[self]

\* C6: a set_ble_mode call changes the mode in memory and the persisted mode
\* together, to the new value, or changes neither, so that at a restart
\* request the mode the next boot loads is the mode in memory.
C6_ModeChangeAtomic == [][C6_SetModeStep]_vars

\* what a step of a controller other than the global one does to the global one
C7_SecondStep ==
  \A first \in Controllers :
    (global_ble_controller = first /\ last'.self \notin {NULL, first}) =>
      /\ info_for_component'[first] = info_for_component[first]
      /\ handler_for_component'[first] = handler_for_component[first]
      /\ callbacks'[first] = callbacks[first]
      /\ deferred_functions_for_loop'[first] = deferred_functions_for_loop[first]

\* C7: while a first controller is the global one, no operation of another
\* controller, its setup or a stack callback delivered to it, changes the
\* first controller's descriptors, handlers, observers or queue.
C7_SecondLeavesFirstUnchanged == [][C7_SecondStep]_vars

\* C8: when two controllers have been set up, the one set up first is the
\* global controller and the receiver of the server's callbacks, and the
\* observers that are called are its observers.
C8_FirstRemainsAuthoritative ==
  \A n \in 1..Len(SetupOrder) : \A m \in (n + 1)..Len(SetupOrder) :
    (phase[SetupOrder[n]] = "ADVERTISING" /\ phase[SetupOrder[m]] = "ADVERTISING") =>
      /\ global_ble_controller = SetupOrder[n]
      /\ device.server_callbacks = SetupOrder[n]
      /\ \A k \in 1..Len(ObserverEffects(last)) :
           ObserverEffects(last)[k].self = SetupOrder[n]

\* the state of a failed controller, and the steps that follow a failure
SetupOps == {"initialize_ble_mode", "setup_ble", "register_global",
             "setup_ble_server_and_services", "enable_ble_security", "start_advertising"}

C9_Halted ==
  /\ (last.op = "setup_ble" /\ last.arg # "ok") => failed[last.self]
  /\ \A c \in Controllers :
       failed[c] =>
         /\ phase[c] = "HALTED"
         /\ ble_server[c] = NULL
         /\ device.server_callbacks # c
         /\ device.security_callbacks # c
         /\ global_ble_controller # c
         /\ \A k \in DOMAIN handler_for_component[c] :
              handler_for_component[c][k] = null_handler

C9_NoStepAfterFailure ==
  \A c \in Controllers :
    failed[c] => /\ failed'[c]
                 /\ last'.self = c => last'.op \notin SetupOps

\* C9: a failure of btStart, esp_bluedroid_init or esp_bluedroid_enable marks
\* the controller failed and ends its setup: a failed controller has no
\* server, is neither the receiver of callbacks nor the global controller,
\* has no live handler, and no step of setup runs for it again.
C9_FailedSetupHalts == []C9_Halted /\ [][C9_NoStepAfterFailure]_vars

C9_Witness ==
  \E c, d \in Controllers :
    /\ failed[c] /\ last.op # "setup_ble"
    /\ phase[d] = "ADVERTISING"

\* reading a string of digits as a number
DigitValue(ch) == CHOOSE d \in 0..9 : Digit(d) = ch

IsDigits(str) == \A n \in 1..Len(str) : \E d \in 0..9 : SubSeq(str, n, n) = Digit(d)

RECURSIVE ParseDecimal(_)
ParseDecimal(str) ==
  IF Len(str) = 0 THEN 0
  ELSE 10 * ParseDecimal(SubSeq(str, 1, Len(str) - 1))
       + DigitValue(SubSeq(str, Len(str), Len(str)))

\* the payload of the closure that the last step enqueued
EnqueuedPayload ==
  LET queue == deferred_functions_for_loop[global_ble_controller] IN queue[Len(queue)].arg

\* C11: the payload that onPassKeyNotify hands to the show-passkey observers
\* has exactly 6 characters for every pass key; for a pass key in 0..999999
\* the 6 characters are digits and read as that number (42 gives "000042",
\* 123456 gives "123456"); the observers receive a payload of 6 characters.
C11_PassKeyPayload ==
  /\ (last.op = "onPassKeyNotify" /\ HasEffect(last, "push")
        /\ PushEffects(last)[1].arg = "ok") =>
       /\ Len(EnqueuedPayload) = PASS_KEY_LENGTH
       /\ (last.num >= 0 /\ last.num <= 999999) =>
            /\ IsDigits(EnqueuedPayload)
            /\ ParseDecimal(EnqueuedPayload) = last.num
       /\ last.num = 42 => EnqueuedPayload = "000042"
       /\ last.num = 123456 => EnqueuedPayload = "123456"
  /\ \A n \in 1..Len(ObserverEffects(last)) :
       ObserverEffects(last)[n].kind = "show_pass_key" =>
         Len(ObserverEffects(last)[n].arg) = PASS_KEY_LENGTH

C11_Witness ==
  \E n \in 1..Len(ObserverEffects(last)) :
    /\ ObserverEffects(last)[n].kind = "show_pass_key"
    /\ ObserverEffects(last)[n].arg = "000042"

\* endpoint materialization has run for the controller
Materialized(self) ==
  /\ running
  /\ phase[self] \in {"SERVER_CREATED", "SECURITY_CONFIGURED", "ADVERTISING"}
  /\ ble_mode[self] # WIFI_ONLY

\* C12: after register_component was called more than once for a component
\* the registry holds one descriptor for it, the one registered last, the
\* controller has not failed, and after materialization the component's
\* handler is the one created from that descriptor.
C12_LastRegistrationWins ==
  \A self \in Controllers : \A component \in Components :
    LET descriptors == registrations[self][component] IN
    Len(descriptors) >= 1 =>
      /\ component \in DOMAIN info_for_component[self]
      /\ info_for_component[self][component] = descriptors[Len(descriptors)]
      /\ phase[self] = "UNINITIALIZED" => ~failed[self]
      /\ Materialized(self) =>
           /\ component \in DOMAIN handler_for_component[self]
           /\ handler_for_component[self][component].component = component
           /\ handler_for_component[self][component].info = descriptors[Len(descriptors)]

C12_Witness ==
  \E self \in Controllers : \E component \in Components :
    /\ registrations[self][component] = <<"d1", "d2">>
    /\ Materialized(self)
    /\ handler_for_component[self][component].info = "d2"

\* C13: every component that has an entry in the handler registry has a
\* registered descriptor (the descriptor registry is keyed by component, so
\* it has one); a component without descriptor has no entry.
C13_HandlersHaveDescriptors ==
  \A self \in Controllers :
    DOMAIN handler_for_component[self] \subseteq DOMAIN info_for_component[self]

\* the operating mode has been loaded and excludes the exposure of endpoints
ExposureExcluded(self) ==
  running /\ phase[self] # "UNINITIALIZED" /\ ble_mode[self] = WIFI_ONLY

\* handlers are set up by the server step of setup only, after the server
\* was created, in a mode other than WIFI_ONLY
C14_MaterializationEffects ==
  HasEffect(last, "handler_setup") =>
    /\ last.op = "setup_ble_server_and_services"
    /\ ble_mode[last.self] # WIFI_ONLY
    /\ ble_server[last.self] # NULL
    /\ \A n \in 1..Len(last.effects) :
         last.effects[n].type = "handler_setup" =>
           \E m \in 1..(n - 1) : last.effects[m].type = "createServer"

\* the server step of setup runs when the controller has no server yet, and
\* a controller keeps its server: the step runs once
C14_MaterializationStep ==
  /\ last'.op = "setup_ble_server_and_services" =>
       ble_server[last'.self] = NULL /\ ble_server'[last'.self] # NULL
  /\ \A self \in Controllers : ble_server[self] # NULL => ble_server'[self] # NULL

C14_NoHandlerWithoutExposure ==
  \A self \in Controllers :
    ExposureExcluded(self) =>
      \A component \in DOMAIN handler_for_component[self] :
        handler_for_component[self][component] = null_handler

C14_PublishStep ==
  (last'.op = "update_component_state" /\ ExposureExcluded(last'.self)) =>
    /\ last'.effects = <<>>
    /\ UNCHANGED <<info_for_component, handler_for_component,
                   deferred_functions_for_loop, ble_mode, device>>

\* C14: handlers are materialized at most once per controller, after its
\* server was created and only in a mode other than WIFI_ONLY; in the mode
\* WIFI_ONLY setup creates no handler and update_component_state does
\* nothing.
C14_MaterializationOnceAndOnlyExposed ==
  /\ [](C14_MaterializationEffects /\ C14_NoHandlerWithoutExposure)
  /\ [][C14_MaterializationStep /\ C14_PublishStep]_vars

\* the statement without its part on update_component_state
C14_ExceptPublish ==
  /\ [](C14_MaterializationEffects /\ C14_NoHandlerWithoutExposure)
  /\ [][C14_MaterializationStep]_vars

SecurityQueries == {"onPassKeyRequest", "onSecurityRequest", "onConfirmPIN"}

\* C15: onPassKeyRequest answers 123456 and onSecurityRequest and
\* onConfirmPIN answer true, whether the deferred queue accepts their item
\* or is full; each makes one enqueue attempt, of an item that only logs,
\* and neither the callback nor its item invokes an observer.
C15_FixedAnswers ==
  /\ last.op \in SecurityQueries =>
       /\ last.thread = "stack"
       /\ last.op = "onPassKeyRequest" => last.value = FIXED_PASS_KEY
       /\ last.op = "onSecurityRequest" => last.ret = BoolStr(TRUE)
       /\ last.op = "onConfirmPIN" => last.ret = BoolStr(TRUE)
       /\ Len(PushEffects(last)) = 1
       /\ PushEffects(last)[1].kind = "log"
       /\ ObserverEffects(last) = <<>>
  /\ (last.op = "invoke" /\ last.item.kind = "log") =>
       /\ last.item.arg \in SecurityQueries
       /\ last.effects = <<>>

C15_Witness ==
  /\ last.op = "onPassKeyRequest"
  /\ PushEffects(last)[1].arg = "failed"
  /\ Len(deferred_functions_for_loop[last.self]) = QueueCapacity
  /\ \E kind \in Kinds : Len(callbacks[last.self][kind]) > 0

\* the steps of setup(), in the order of its statements
SetupSteps == <<"UNINITIALIZED", "MODE_LOADED", "RADIO_STARTED", "REGISTERED",
                "SERVER_CREATED", "SECURITY_CONFIGURED", "ADVERTISING">>

StepIndex(p) == CHOOSE n \in 1..Len(SetupSteps) : SetupSteps[n] = p

\* every registered component of the controller has a handler that was set up
EndpointsMaterialized(self) ==
  \A component \in DOMAIN info_for_component[self] :
    /\ component \in DOMAIN handler_for_component[self]
    /\ handler_for_component[self][component] # null_handler

C16_SetupStep ==
  /\ \A self \in Controllers :
       phase'[self] # phase[self] =>
         /\ phase[self] # "HALTED"
         /\ \/ phase'[self] = "HALTED"
            \/ StepIndex(phase'[self]) = StepIndex(phase[self]) + 1
  /\ last'.op = "setup_ble_server_and_services" =>
       /\ ble_mode'[last'.self] = LoadedMode(preference)
       /\ device.bt_started
       /\ ble_server[last'.self] = NULL
  /\ last'.op = "enable_ble_security" =>
       /\ ble_server[last'.self] # NULL
       /\ device.server_callbacks = last'.self
       /\ ble_mode[last'.self] # WIFI_ONLY => EndpointsMaterialized(last'.self)
  /\ last'.op = "start_advertising" =>
       /\ ble_server[last'.self] # NULL
       /\ global_ble_controller # NULL
       /\ device.server_callbacks = last'.self
       /\ ble_mode[last'.self] # WIFI_ONLY => EndpointsMaterialized(last'.self)
       /\ security_enabled[last'.self] => device.security_callbacks = last'.self
       /\ phase[last'.self] = "SECURITY_CONFIGURED"
  /\ (device'.advertising /\ ~device.advertising) =>
       /\ device'.server_callbacks # NULL
       /\ phase'[device'.server_callbacks] = "ADVERTISING"

\* C16: a controller's setup goes through its steps in the order mode
\* loaded, radio started, receiver registered, server created with the
\* endpoints materialized, security configured, advertising started, each at
\* most once; advertising starts only when the server exists, the controller
\* is the stack's callback receiver, materialization has run and security
\* has been configured.
C16_SetupOrder == [][C16_SetupStep]_vars

C16_Witness ==
  /\ last.op = "start_advertising"
  /\ device.advertising
  /\ EndpointsMaterialized(last.self)
  /\ info_for_component[last.self] # EmptyMap
  /\ device.security_callbacks = last.self

Accepted(id) == \E c \in Controllers : \E n \in 1..Len(pushed[c]) : pushed[c][n].id = id

Invoked(id) == \E n \in 1..Len(executed) : executed[n].id = id

\* C17: while the loop thread keeps running loop(), every work item that
\* a deferred queue accepted is invoked in the end, whichever thread
\* enqueued it and whatever the loop was doing at that moment.
C17_AcceptedIsInvoked ==
  \A id \in 1..MaxItems : Accepted(id) ~> Invoked(id)

\* a work item enqueued by a work item that is being executed was invoked
\* after one that the stack thread enqueued during the drain
C17_Witness ==
  /\ last.op = "invoke"
  /\ last.item.by = "loop"
  /\ last.item.kind = "user"
  /\ \E n \in 1..Len(executed) : executed[n].by = "stack"
  /\ \A id \in 1..MaxItems : Accepted(id) /\ Invoked(id)

\* C18: materialization calls setup on live handlers only: no step
\* dereferences a null entry of the handler registry, whatever calls came
\* before setup.
C18_NoNullHandlerDereferenced ==
  \A n \in 1..Len(last.effects) :
    ~(last.effects[n].type = "null_dereference" /\ last.effects[n].kind = "handler_setup")

\* the connected and disconnected notifications that the observers of a
\* controller have received, in order
Notifications(c) ==
  LET delivered == SelectSeq(executed, LAMBDA e :
                     e.self = c /\ e.kind \in {"connected", "disconnected"})
  IN [n \in 1..Len(delivered) |-> delivered[n].kind]

Alternate(kinds) ==
  \A n \in 1..Len(kinds) :
    kinds[n] = IF n % 2 = 1 THEN "connected" ELSE "disconnected"

\* C19: the stack raises connect and disconnect events alternately, and the
\* observers of a controller receive connected and disconnected
\* notifications alternately, starting with connected.
C19_NotificationsAlternate ==
  \A c \in Controllers :
    (callbacks[c]["connected"] # <<>> /\ callbacks[c]["disconnected"] # <<>>) =>
      Alternate(Notifications(c))

C20_ReceiverHasGlobal ==
  /\ (device.server_callbacks # NULL \/ device.security_callbacks # NULL) =>
       global_ble_controller # NULL
  /\ last.thread = "stack" =>
       /\ global_ble_controller # NULL
       /\ \A n \in 1..Len(last.effects) : last.effects[n].type # "null_dereference"
       /\ \A n \in 1..Len(PushEffects(last)) :
            PushEffects(last)[n].self = global_ble_controller

C20_GlobalStep ==
  global_ble_controller # NULL => global_ble_controller' = global_ble_controller

\* C20: whenever a controller is the stack's receiver of connection or
\* security callbacks global_ble_controller is set, so every stack callback
\* enqueues through a set reference; once set, the reference keeps its value.
C20_GlobalSetAndStable == []C20_ReceiverHasGlobal /\ [][C20_GlobalStep]_vars

C20_Witness ==
  /\ last.thread = "stack"
  /\ Len(PushEffects(last)) = 1
  /\ global_ble_controller = SetupOrder[1]
  /\ last.self = SetupOrder[2]
  /\ device.server_callbacks = SetupOrder[2]

====
